---- MODULE Spec2Model ----
(***************************************************************************)
(* The protocol gateway of qdrant-mcp: the MCP tool handlers               *)
(* (mcp_handler.py) and the REST endpoints (server.py) in front of one     *)
(* shared vector store.  Several gateway processes (the REST server, the   *)
(* MCP HTTP server, an MCP stdio server) talk to the same store; inside a  *)
(* process a handler runs without suspension between its store calls (the  *)
(* handlers are coroutines that never await), so handlers of different     *)
(* processes interleave at the granularity of one store call.              *)
(***************************************************************************)
EXTENDS Integers, Sequences, FiniteSets, TLC

----------------------------------------------------------------------------
(* Bounds of the model.                                                    *)

MaxReqs == 2
MaxPoints == 2

(* The processes that run an MCPHandler: the MCP HTTP server               *)
(* (mcp_server.py, startup_event) and the stdio server (server.py,         *)
(* run_mcp_mode).  The REST endpoints make one store call each and need no *)
(* process state.                                                          *)
Procs == {"mcp_http", "mcp_stdio"}

----------------------------------------------------------------------------
(* Settings (config.py) and the value domains requests are drawn from.     *)

DefaultCollection == "claude_vectors"
VectorSize == 384
OtherSize == 512
TopK == 10
MinScore == 22

NoneV == "None"
Absent == "Absent"

Colls == {DefaultCollection, "notes"}
(* The collection argument of a request: left out, or the other name.      *)
CollArgs == {Absent, "notes"}
Texts == {"", "a", "b"}
Limits == {1}
Thresholds == {60}

NoVec == [code |-> -1, dim |-> 0]
CallerVec == [code |-> 7, dim |-> VectorSize]
CallerVectors == {CallerVec}

(* embedder.encode(text).tolist(): deterministic, one vector per text, of  *)
(* the model's dimension.                                                  *)
Embed(t) ==
    [code |-> (CASE t = "" -> 0 [] t = "a" -> 1 [] t = "b" -> 2 [] OTHER -> 3),
     dim |-> VectorSize]

(* The precompact hook's threshold, collection and vector size             *)
(* (hooks/precompact_vectorize.py lines 16-18).                            *)
MAX_TOKENS == 512
COLLECTION == "claude_vectors"
VECTOR_SIZE == 384

(* count_tokens(text): the tokenizer's count.  "edge" is a text of exactly *)
(* MAX_TOKENS tokens and "long" one of a token more.                       *)
count_tokens(t) ==
    CASE t = "" -> 0
      [] t = "a" -> 1
      [] t = "edge" -> MAX_TOKENS
      [] t = "long" -> MAX_TOKENS + 1
      [] OTHER -> 2

Truthy(s) == s # NoneV /\ s # ""

----------------------------------------------------------------------------
(* The store adapter's contract (the external vector database).            *)

MissingCollection == [exists |-> FALSE, size |-> 0, distance |-> "none", points |-> {}]

ValidId(id) == id # "bad"

Score(v, w) == IF v = w THEN 100 ELSE 50

StoreGetCollection(st, c) == IF st[c].exists THEN "ok" ELSE "not_found"

StoreCreateResult(st, c) == IF st[c].exists THEN "exists" ELSE "ok"

StoreCreate(st, c, size, dist) ==
    IF st[c].exists THEN st
    ELSE [st EXCEPT ![c] = [exists |-> TRUE, size |-> size, distance |-> dist, points |-> {}]]

StoreUpsertResult(st, c, pts) ==
    IF ~st[c].exists THEN "not_found"
    ELSE IF \E i \in 1..Len(pts) : ~ValidId(pts[i].id) THEN "bad_id"
    ELSE IF \E i \in 1..Len(pts) : pts[i].vector.dim # st[c].size THEN "bad_dim"
    ELSE "ok"

RECURSIVE PutAll(_, _)
PutAll(S, pts) ==
    IF pts = <<>> THEN S
    ELSE PutAll({q \in S : q.id # Head(pts).id} \cup {Head(pts)}, Tail(pts))

StoreUpsert(st, c, pts) ==
    IF StoreUpsertResult(st, c, pts) = "ok"
    THEN [st EXCEPT ![c].points = PutAll(@, pts)]
    ELSE st

StoreSearchResult(st, c, qv) ==
    IF ~st[c].exists THEN "not_found"
    ELSE IF qv.dim # st[c].size THEN "bad_dim"
    ELSE "ok"

RECURSIVE Ranked(_, _, _)
Ranked(S, qv, n) ==
    IF S = {} \/ n = 0 THEN <<>>
    ELSE LET top == {x \in S : \A y \in S : Score(x.vector, qv) >= Score(y.vector, qv)}
             best == CHOOSE x \in top : TRUE
         IN <<[id |-> best.id, score |-> Score(best.vector, qv), payload |-> best.payload]>>
            \o Ranked(S \ {best}, qv, n - 1)

StoreSearch(st, c, qv, limit, thr) ==
    Ranked({x \in st[c].points : Score(x.vector, qv) >= thr}, qv, limit)

----------------------------------------------------------------------------
(* State.                                                                  *)

VARIABLES
    colls,      \* the store: collection name -> collection
    pc,         \* per process: where its qdrant-store call stands
    flight,     \* per process: the locals of its qdrant-store call in flight
    last,       \* the call that completed most recently (request, calls made, response)
    nreqs,      \* requests received so far
    reply,      \* the MCP HTTP endpoint: the POST body it read last and its answer
    boot,       \* per entry point: how far its startup has come
    live,       \* whether the store answers calls
    cfg,        \* the global settings (cfg of server.py and mcp_server.py)
    pending,    \* the REST search request constructed and not yet handled
    environ,    \* the configuration file and the environment variables
    hook        \* the precompact hook: the transcript and the run over it

vars == <<colls, pc, flight, last, nreqs, reply, boot, live, cfg, pending, environ,
         hook>>

(* What the handlers of a running gateway leave alone: the HTTP exchange   *)
(* of the MCP endpoint, the startup state, the store's availability, the   *)
(* settings and the request under construction.                            *)
gateway == <<reply, boot, live, cfg, pending, environ, hook>>

(* The built-in settings: the defaults of VectorConfig and MCPConfig       *)
(* (config.py lines 40-59 and 76-84).                                      *)
DefaultSettings ==
    [collection_name |-> DefaultCollection, vector_size |-> VectorSize,
     distance_metric |-> "cosine", top_k |-> TopK, min_score |-> MinScore,
     server_name |-> "qdrant-mcp", server_version |-> "1.0.0",
     protocol_version |-> "2024-11-05", loaded |-> TRUE]

(* The module-level `cfg = None` of mcp_server.py (line 22), before main   *)
(* assigns the configuration.                                              *)
NotLoaded == [DefaultSettings EXCEPT !.loaded = FALSE]

(* A deployment without a configuration file and with no variable set.    *)
(* A setting the file or the environment does not give is Absent (a name)  *)
(* or -1 (a number).                                                       *)
NoSettingsGiven == [collection_name |-> Absent, top_k |-> -1, server_name |-> Absent]

NoEnviron == [exists |-> FALSE, file |-> NoSettingsGiven, env |-> NoSettingsGiven]

(* No precompact hook runs. *)
NoHook == [phase |-> "off", lines |-> <<>>, pos |-> 0, updated |-> <<>>, file |-> <<>>,
           answers |-> <<>>, vectorized |-> 0]

(* No VectorSearchRequest is waiting for its handler. *)
NoPending == [state |-> "none", query |-> "", carg |-> Absent, larg |-> -1, targ |-> -1,
              collection |-> "", limit |-> 0, score_threshold |-> 0,
              at |-> DefaultSettings, ran |-> DefaultSettings]

NoPayload == [content |-> NoneV, tokens |-> -1]

NoFlight == [coll |-> "", content |-> "", id |-> "", vector |-> NoVec,
             log |-> <<>>, pred |-> "none"]

NoCall == [kind |-> "none", coll |-> "", text |-> "", limit |-> 0, thr |-> 0,
           size |-> 0, points |-> <<>>, log |-> <<>>, status |-> 0, out |-> "",
           hits |-> <<>>, total |-> -1, ids |-> <<>>, qvec |-> NoVec, seen |-> {},
           pred |-> "none"]

Call(op, res) == [op |-> op, res |-> res]

(* The entry points of the gateway: the REST server (server.py, lifespan), *)
(* the MCP HTTP server (mcp_server.py, startup_event) and the MCP stdio    *)
(* mode (server.py, run_mcp_mode).                                         *)
EntryPoints == {"rest", "mcp_http", "mcp_stdio"}

(* An entry point before its startup began.  confirmed: a call to the      *)
(* store has succeeded during startup; model: the embedding model is       *)
(* loaded; attempts: connection attempts made so far.                      *)
Down == [phase |-> "down", attempts |-> 0, confirmed |-> FALSE, model |-> FALSE,
         served |-> FALSE, slept |-> 0]

(* An entry point whose startup has completed: the REST server has seen    *)
(* the store answer get_collections, the MCP servers have only built their *)
(* client object.                                                          *)
Serving(e) == [phase |-> "serving", attempts |-> IF e = "rest" THEN 1 ELSE 0,
               confirmed |-> (e = "rest"), model |-> TRUE, served |-> FALSE,
               slept |-> 0]

NoBody == [form |-> "none", jsonrpc |-> "", method |-> "", id |-> "", params |-> "",
           tool |-> "", arg |-> "", fault |-> "none", batch |-> <<>>]

NoInfo == [protocolVersion |-> "", name |-> "", version |-> ""]

NoReply == [body |-> NoBody, status |-> 0, form |-> "none", jsonrpc |-> "",
            result |-> FALSE, error |-> FALSE, code |-> 0, id |-> "", text |-> "",
            items |-> <<>>, info |-> NoInfo, tools |-> {}]

(* str(uuid.uuid4()): a fresh id; n is the request's number, i the index   *)
(* of the point in it.                                                     *)
uuid4(n, i) == "g" \o ToString(n) \o "-" \o ToString(i)

Faults == {FALSE, TRUE}

(* server.py lines 152-156, 163-165, 204-208 and 216-218:                  *)
(* distance_map.get(name, COSINE)                                          *)
DistanceOf(d) == IF d \in {"cosine", "euclidean", "dot"} THEN d ELSE "cosine"

(* The REST server makes sure of the default collection before it serves  *)
(* (ensure_default_collection, server.py lines 145-167); an MCP server     *)
(* does not, so the store of the MCP specifications starts with or         *)
(* without it.                                                             *)
NoCollections == [c \in Colls |-> MissingCollection]

ensure_default_collection(st) ==
    IF StoreGetCollection(st, cfg.collection_name) = "ok" THEN st
    ELSE StoreCreate(st, cfg.collection_name, cfg.vector_size,
                     DistanceOf(cfg.distance_metric))

Quiet ==
    /\ pc = [p \in Procs |-> "idle"]
    /\ flight = [p \in Procs |-> NoFlight]
    /\ last = NoCall
    /\ nreqs = 0
    /\ reply = NoReply
    /\ boot = [e \in EntryPoints |-> Serving(e)]
    /\ live = TRUE
    /\ cfg = DefaultSettings
    /\ pending = NoPending
    /\ environ = NoEnviron
    /\ hook = NoHook

(* The settings a deployment may configure for the vectors                 *)
(* (VectorConfig.distance_metric, config.py lines 50-52, and vector_size,  *)
(* line 49).                                                               *)
Metrics == {"cosine", "euclidean", "dot"}

VectorSettings ==
    {[DefaultSettings EXCEPT !.distance_metric = m, !.vector_size = n] :
        m \in Metrics, n \in {VectorSize, OtherSize}}

Init ==
    /\ Quiet
    /\ colls \in {NoCollections, ensure_default_collection(NoCollections)}

InitRest ==
    /\ Quiet
    /\ colls = ensure_default_collection(NoCollections)

----------------------------------------------------------------------------
(* MCPHandler._handle_store: the qdrant-store tool.  Its three store calls *)
(* (get_collection, create_collection, upsert) are separate steps.         *)

Finish(p, call) ==
    /\ last' = call
    /\ pc' = [pc EXCEPT ![p] = "idle"]
    /\ flight' = [flight EXCEPT ![p] = NoFlight]

NoError(log) == \A i \in 1..Len(log) : log[i].res # "error"

(* A completed qdrant-store call that found its collection missing and     *)
(* created it, with no adapter fault on the way.                           *)
CreatedIt(call) ==
    /\ call.kind = "mcp_store"
    /\ Len(call.log) >= 3
    /\ call.log[2] = Call("get_collection", "not_found")
    /\ call.log[3] = Call("create_collection", "ok")
    /\ NoError(call.log)

StoreCallOf(f) ==
    [NoCall EXCEPT !.kind = "mcp_store", !.coll = f.coll, !.text = f.content,
                   !.log = f.log, !.pred = f.pred]

(* lines 156-164: the arguments and the empty-content check.               *)
StoreValidate(content) == IF Truthy(content) THEN "embed" ELSE "no_content"

(* lines 156-172: read the arguments, reject empty content, embed, draw    *)
(* the point id.                                                           *)
HandleStoreBegin(p) ==
    /\ pc[p] = "idle"
    /\ nreqs < MaxReqs
    /\ nreqs' = nreqs + 1
    /\ UNCHANGED colls
    /\ UNCHANGED gateway
    /\ \E content \in Texts, carg \in CollArgs, fault \in Faults :
         LET collection == IF carg = Absent THEN cfg.collection_name ELSE carg
             f == [coll |-> collection, content |-> content, id |-> "",
                   vector |-> NoVec, log |-> <<>>,
                   pred |-> IF CreatedIt(last) /\ last.coll = collection
                            THEN "first" ELSE "none"]
         IN IF StoreValidate(content) = "no_content"
            THEN /\ ~fault
                 /\ Finish(p, [StoreCallOf(f) EXCEPT !.out = "no_content"])
            ELSE IF fault
            THEN Finish(p, [StoreCallOf(f) EXCEPT !.log = <<Call("encode", "error")>>,
                                                  !.out = "store_failed"])
            ELSE /\ flight' = [flight EXCEPT ![p] =
                        [f EXCEPT !.id = uuid4(nreqs', 1), !.vector = Embed(content),
                                  !.log = <<Call("encode", "ok")>>]]
                 /\ pc' = [pc EXCEPT ![p] = "ensure"]
                 /\ UNCHANGED last

AlwaysCreate(res) == "create"

NeverCreate(res) == "upsert"

(* lines 175-178: any exception of get_collection leads to creation.       *)
AfterGetCollection(res) == IF res = "ok" THEN "upsert" ELSE "create"

(* line 176 *)
HandleStoreEnsure(p) ==
    /\ pc[p] = "ensure"
    /\ \E fault \in Faults :
         LET res == IF fault THEN "error" ELSE StoreGetCollection(colls, flight[p].coll)
         IN /\ flight' = [flight EXCEPT ![p].log = Append(@, Call("get_collection", res))]
            /\ pc' = [pc EXCEPT ![p] = AfterGetCollection(res)]
    /\ UNCHANGED <<colls, last, nreqs>>
    /\ UNCHANGED gateway

(* lines 179-185 and 201-202: an exception of create_collection, "already  *)
(* exists" included, leaves the handler's try block and is reported as a   *)
(* failed store.                                                           *)
AfterCreateCollection(res) == IF res = "ok" THEN "upsert" ELSE "failed"

(* lines 179-185 *)
HandleStoreCreate(p) ==
    /\ pc[p] = "create"
    /\ \E fault \in Faults :
         LET f == flight[p]
             res == IF fault THEN "error" ELSE StoreCreateResult(colls, f.coll)
             log == Append(f.log, Call("create_collection", res))
         IN /\ colls' = IF res = "ok"
                        THEN StoreCreate(colls, f.coll, cfg.vector_size, "cosine")
                        ELSE colls
            /\ IF AfterCreateCollection(res) = "upsert"
               THEN /\ flight' = [flight EXCEPT ![p].log = log]
                    /\ pc' = [pc EXCEPT ![p] = "upsert"]
                    /\ UNCHANGED last
               ELSE Finish(p, [StoreCallOf(f) EXCEPT !.log = log, !.out = "store_failed"])
    /\ UNCHANGED nreqs
    /\ UNCHANGED gateway

StorePointOfEmptyText(f) ==
    [id |-> f.id, vector |-> Embed(""),
     payload |-> [content |-> f.content, tokens |-> -1]]

(* lines 172 and 191: the point the store tool writes.                     *)
StorePoint(f) ==
    [id |-> f.id, vector |-> f.vector,
     payload |-> [content |-> f.content, tokens |-> -1]]

(* lines 188-202 *)
HandleStoreUpsert(p) ==
    /\ pc[p] = "upsert"
    /\ \E fault \in Faults :
         LET f == flight[p]
             pts == <<StorePoint(f)>>
             res == IF fault THEN "error" ELSE StoreUpsertResult(colls, f.coll, pts)
             log == Append(f.log, Call("upsert", res))
         IN /\ colls' = IF res = "ok" THEN StoreUpsert(colls, f.coll, pts) ELSE colls
            /\ Finish(p, [StoreCallOf(f) EXCEPT
                            !.log = log,
                            !.ids = IF res = "ok" THEN <<f.id>> ELSE <<>>,
                            !.out = IF res = "ok" THEN "stored" ELSE "store_failed"])
    /\ UNCHANGED nreqs
    /\ UNCHANGED gateway

----------------------------------------------------------------------------
(* MCPHandler._handle_find: the qdrant-find tool (one store call).         *)

(* lines 236-245: what the tool's text shows of a result: its score, its   *)
(* content and the rest of the payload, not its id.                        *)
FormatResult(r) == [id |-> "", score |-> r.score, payload |-> r.payload]

(* lines 204-255; fault names the adapter call that raises, if any.        *)
handle_find(st, query, limit, score_threshold, collection, fault) ==
    LET base == [NoCall EXCEPT !.kind = "mcp_find", !.coll = collection, !.text = query,
                               !.limit = limit, !.thr = score_threshold]
    IN IF ~Truthy(query) THEN [base EXCEPT !.out = "no_query"]
       ELSE IF fault = "encode"
       THEN [base EXCEPT !.log = <<Call("encode", "error")>>, !.out = "search_failed"]
       ELSE LET query_vector == Embed(query)
                res == IF fault = "search" THEN "error"
                       ELSE StoreSearchResult(st, collection, query_vector)
                done == [base EXCEPT !.log = <<Call("encode", "ok"), Call("search", res)>>,
                                     !.qvec = query_vector]
                results == StoreSearch(st, collection, query_vector, limit, score_threshold)
            IN IF res # "ok" THEN [done EXCEPT !.out = "search_failed"]
               ELSE IF results = <<>>
               THEN [done EXCEPT !.out = "none_found", !.seen = st[collection].points]
               ELSE [done EXCEPT !.out = "found", !.seen = st[collection].points,
                                 !.hits = [k \in 1..Len(results) |-> FormatResult(results[k])]]

LimitArgs == Limits \cup {-1}
ThresholdArgs == Thresholds \cup {-1}
FindFaults == {"none", "encode", "search"}

HandleFind(p) ==
    /\ pc[p] = "idle"
    /\ nreqs < MaxReqs
    /\ nreqs' = nreqs + 1
    /\ \E query \in Texts, carg \in CollArgs, larg \in LimitArgs,
          targ \in ThresholdArgs, fault \in FindFaults :
         /\ (~Truthy(query) => fault = "none")
         /\ last' = handle_find(colls, query,
                                IF larg = -1 THEN cfg.top_k ELSE larg,
                                IF targ = -1 THEN cfg.min_score ELSE targ,
                                IF carg = Absent THEN cfg.collection_name ELSE carg,
                                fault)
    /\ UNCHANGED <<colls, pc, flight>>
    /\ UNCHANGED gateway

----------------------------------------------------------------------------
(* MCPHandler._handle_create_collection: the qdrant-create-collection tool *)

(* lines 278-306 *)
handle_create_collection(st, name, vector_size, fault) ==
    LET base == [NoCall EXCEPT !.kind = "mcp_create", !.coll = name, !.size = vector_size]
    IN IF ~Truthy(name) THEN [base EXCEPT !.out = "no_name"]
       ELSE LET res == IF fault THEN "error" ELSE StoreCreateResult(st, name)
            IN [base EXCEPT !.log = <<Call("create_collection", res)>>,
                            !.out = IF res = "ok" THEN "created" ELSE "create_failed"]

SizeArgs == {-1, OtherSize}

HandleCreateCollection(p) ==
    /\ pc[p] = "idle"
    /\ nreqs < MaxReqs
    /\ nreqs' = nreqs + 1
    /\ \E name \in Colls \cup {""}, sarg \in SizeArgs, fault \in Faults :
         LET vector_size == IF sarg = -1 THEN cfg.vector_size ELSE sarg
             call == handle_create_collection(colls, name, vector_size, fault)
         IN /\ (~Truthy(name) => ~fault)
            /\ last' = call
            /\ colls' = IF call.out = "created"
                        THEN StoreCreate(colls, name, vector_size, "cosine")
                        ELSE colls
    /\ UNCHANGED <<pc, flight>>
    /\ UNCHANGED gateway

----------------------------------------------------------------------------
(* The REST endpoints of server.py.                                        *)

create_collection_idempotent(st, name, vector_size, distance, fault) ==
    LET base == [NoCall EXCEPT !.kind = "rest_create", !.coll = name, !.size = vector_size]
        res == IF fault THEN "error" ELSE StoreCreateResult(st, name)
    IN [base EXCEPT !.log = <<Call("create_collection", res)>>,
                    !.status = IF res \in {"ok", "exists"} THEN 200 ELSE 400,
                    !.out = IF res \in {"ok", "exists"} THEN "created" ELSE "create_failed"]

(* POST /collections, lines 200-225 *)
create_collection(st, name, vector_size, distance, fault) ==
    LET base == [NoCall EXCEPT !.kind = "rest_create", !.coll = name, !.size = vector_size]
        res == IF fault THEN "error" ELSE StoreCreateResult(st, name)
    IN [base EXCEPT !.log = <<Call("create_collection", res)>>,
                    !.status = IF res = "ok" THEN 200 ELSE 400,
                    !.out = IF res = "ok" THEN "created" ELSE "create_failed"]

DistanceArgs == {"cosine", "dot"}

RestCreateCollection ==
    /\ nreqs < MaxReqs
    /\ nreqs' = nreqs + 1
    /\ \E name \in Colls, sarg \in SizeArgs, distance \in DistanceArgs, fault \in Faults :
         LET vector_size == IF sarg = -1 THEN cfg.vector_size ELSE sarg
             call == create_collection(colls, name, vector_size, distance, fault)
         IN /\ last' = call
            /\ colls' = IF call.status = 200
                        THEN StoreCreate(colls, name, vector_size, DistanceOf(distance))
                        ELSE colls
    /\ UNCHANGED <<pc, flight>>
    /\ UNCHANGED gateway

search_vectors_empty_is_error(st, query, limit, score_threshold, collection, fault) ==
    LET base == [NoCall EXCEPT !.kind = "rest_search", !.coll = collection,
                               !.text = query, !.limit = limit, !.thr = score_threshold]
    IN IF query = Absent THEN [base EXCEPT !.status = 422, !.out = "unprocessable"]
       ELSE IF fault = "encode"
       THEN [base EXCEPT !.log = <<Call("encode", "error")>>, !.status = 500,
                         !.out = "search_failed"]
       ELSE LET query_vector == Embed(query)
                res == IF fault = "search" THEN "error"
                       ELSE StoreSearchResult(st, collection, query_vector)
                done == [base EXCEPT !.log = <<Call("encode", "ok"), Call("search", res)>>,
                                     !.qvec = query_vector]
                results == StoreSearch(st, collection, query_vector, limit, score_threshold)
            IN IF res # "ok" \/ results = <<>>
               THEN [done EXCEPT !.status = 500, !.out = "search_failed"]
               ELSE [done EXCEPT !.status = 200, !.out = "hits", !.hits = results,
                                 !.total = Len(results), !.seen = st[collection].points]

search_vectors_reranked(st, query, limit, score_threshold, collection, fault) ==
    LET base == [NoCall EXCEPT !.kind = "rest_search", !.coll = collection,
                               !.text = query, !.limit = limit, !.thr = score_threshold]
    IN IF query = Absent THEN [base EXCEPT !.status = 422, !.out = "unprocessable"]
       ELSE IF fault = "encode"
       THEN [base EXCEPT !.log = <<Call("encode", "error")>>, !.status = 500,
                         !.out = "search_failed"]
       ELSE LET query_vector == Embed(query)
                res == IF fault = "search" THEN "error"
                       ELSE StoreSearchResult(st, collection, query_vector)
                done == [base EXCEPT !.log = <<Call("encode", "ok"), Call("search", res)>>,
                                     !.qvec = query_vector]
                results == StoreSearch(st, collection, query_vector, limit, score_threshold)
                n == Len(results)
            IN IF res # "ok" THEN [done EXCEPT !.status = 500, !.out = "search_failed"]
               ELSE [done EXCEPT !.status = 200, !.out = "hits",
                                 !.hits = [k \in 1..n |-> results[n + 1 - k]],
                                 !.total = n, !.seen = st[collection].points]

(* POST /vectors/search, lines 272-301.  A body without `query` does not   *)
(* pass the request model (query: str) and never reaches the handler.      *)
search_vectors(st, query, limit, score_threshold, collection, fault) ==
    LET base == [NoCall EXCEPT !.kind = "rest_search", !.coll = collection,
                               !.text = query, !.limit = limit, !.thr = score_threshold]
    IN IF query = Absent THEN [base EXCEPT !.status = 422, !.out = "unprocessable"]
       ELSE IF fault = "encode"
       THEN [base EXCEPT !.log = <<Call("encode", "error")>>, !.status = 500,
                         !.out = "search_failed"]
       ELSE LET query_vector == Embed(query)
                res == IF fault = "search" THEN "error"
                       ELSE StoreSearchResult(st, collection, query_vector)
                done == [base EXCEPT !.log = <<Call("encode", "ok"), Call("search", res)>>,
                                     !.qvec = query_vector]
                results == StoreSearch(st, collection, query_vector, limit, score_threshold)
            IN IF res # "ok" THEN [done EXCEPT !.status = 500, !.out = "search_failed"]
               ELSE [done EXCEPT !.status = 200, !.out = "hits", !.hits = results,
                                 !.total = Len(results), !.seen = st[collection].points]

RestSearch ==
    /\ nreqs < MaxReqs
    /\ nreqs' = nreqs + 1
    /\ \E query \in Texts \cup {Absent}, carg \in CollArgs, larg \in LimitArgs,
          targ \in ThresholdArgs, fault \in FindFaults :
         /\ (query = Absent => fault = "none")
         /\ last' = search_vectors(colls, query,
                                   IF larg = -1 THEN cfg.top_k ELSE larg,
                                   IF targ = -1 THEN cfg.min_score ELSE targ,
                                   IF carg = Absent THEN cfg.collection_name ELSE carg,
                                   fault)
    /\ UNCHANGED <<colls, pc, flight>>
    /\ UNCHANGED gateway

(* VectorSearchRequest.__init__ (server.py lines 75-89): the fields the    *)
(* caller left out are filled from the global settings when the request    *)
(* object is built, before the handler runs.                               *)
VectorSearchRequest(query, carg, larg, targ) ==
    [state |-> "built", query |-> query, carg |-> carg, larg |-> larg, targ |-> targ,
     collection |-> IF carg = Absent THEN cfg.collection_name ELSE carg,
     limit |-> IF larg = -1 THEN cfg.top_k ELSE larg,
     score_threshold |-> IF targ = -1 THEN cfg.min_score ELSE targ,
     at |-> cfg, ran |-> cfg]

RequestValuesReread(request) ==
    [collection |-> IF request.carg = Absent THEN cfg.collection_name ELSE request.carg,
     limit |-> IF request.larg = -1 THEN cfg.top_k ELSE request.larg,
     score_threshold |-> IF request.targ = -1 THEN cfg.min_score ELSE request.targ]

(* search_vectors reads request.collection, request.limit and             *)
(* request.score_threshold (server.py lines 284-289), never the settings.  *)
RequestValues(request) ==
    [collection |-> request.collection, limit |-> request.limit,
     score_threshold |-> request.score_threshold]

(* The production settings of generate_config.py (lines 49-51), on another *)
(* default collection.                                                     *)
ProductionTopK == 20
ProductionMinScore == 30

SearchSettings ==
    {DefaultSettings,
     [DefaultSettings EXCEPT !.collection_name = "notes", !.top_k = ProductionTopK,
                             !.min_score = ProductionMinScore]}

(* FastAPI builds the VectorSearchRequest from the body of                 *)
(* POST /vectors/search before it calls the handler.                       *)
ConstructSearch ==
    /\ pending.state \in {"none", "done"}
    /\ nreqs < MaxReqs
    /\ \E query \in Texts, carg \in CollArgs, larg \in LimitArgs, targ \in ThresholdArgs :
         pending' = VectorSearchRequest(query, carg, larg, targ)
    /\ nreqs' = nreqs + 1
    /\ UNCHANGED <<colls, pc, flight, last, reply, boot, live, cfg, environ, hook>>

(* search_vectors(request), server.py lines 272-301, on the request built  *)
(* before; the request keeps the settings in force when the handler ran.   *)
RunSearch ==
    /\ pending.state = "built"
    /\ \E fault \in FindFaults :
         LET v == RequestValues(pending)
         IN last' = search_vectors(colls, pending.query, v.limit, v.score_threshold,
                                   v.collection, fault)
    /\ pending' = [pending EXCEPT !.state = "done", !.ran = cfg]
    /\ UNCHANGED <<colls, pc, flight, nreqs, reply, boot, live, cfg, environ, hook>>

(* setup_app(config), server.py lines 340-343: the global cfg is replaced. *)
SetupApp ==
    /\ \E config \in SearchSettings \ {cfg} : cfg' = config
    /\ UNCHANGED <<colls, pc, flight, last, nreqs, reply, boot, live, pending, environ, hook>>

(* The points a POST /vectors/upsert body is drawn from (VectorPoint,      *)
(* lines 68-72): content only, content with a vector, neither, and a       *)
(* content point whose id is not a UUID.                                   *)
PointInputs ==
    { [id |-> "u1", vector |-> NoVec, content |-> "a"],
      [id |-> "u2", vector |-> CallerVec, content |-> "b"],
      [id |-> "u1", vector |-> NoVec, content |-> NoneV],
      [id |-> "bad", vector |-> NoVec, content |-> "b"] }

PointLists == UNION {[1..n -> PointInputs] : n \in 1..MaxPoints}

EmbedsAllContent(point) == Truthy(point.content)

(* line 235: `point.content and not point.vector` *)
NeedsEmbedding(point) == Truthy(point.content) /\ point.vector = NoVec

(* lines 243-252: the PointStruct of one request point; its model requires *)
(* a vector.                                                               *)
PointOf(point, vector, n, i) ==
    [id |-> IF point.id = "" THEN uuid4(n, i) ELSE point.id,
     vector |-> vector,
     payload |-> IF Truthy(point.content)
                 THEN [content |-> point.content, tokens |-> count_tokens(point.content)]
                 ELSE NoPayload]

(* A loop that skips a point whose embedding raised and goes on.           *)
RECURSIVE BuildPointsSkippingFailed(_, _, _, _)
BuildPointsSkippingFailed(points, i, failAt, n) ==
    IF i > Len(points) THEN [ok |-> TRUE, built |-> <<>>, log |-> <<>>]
    ELSE LET point == points[i]
             needs == NeedsEmbedding(point)
             vector == IF needs THEN Embed(point.content) ELSE point.vector
             rest == BuildPointsSkippingFailed(points, i + 1, failAt, n)
         IN IF needs /\ failAt = i
            THEN [rest EXCEPT !.log = <<Call("encode", "error")>> \o @]
            ELSE IF vector = NoVec
            THEN [ok |-> FALSE, built |-> <<>>, log |-> <<>>]
            ELSE [ok |-> rest.ok,
                  built |-> IF rest.ok THEN <<PointOf(point, vector, n, i)>> \o rest.built
                            ELSE <<>>,
                  log |-> (IF needs THEN <<Call("encode", "ok")>> ELSE <<>>) \o rest.log]

(* lines 232-254: the loop over the request's points, from point i on;     *)
(* failAt is the index of the point whose embedding raises, if any.        *)
RECURSIVE BuildPoints(_, _, _, _)
BuildPoints(points, i, failAt, n) ==
    IF i > Len(points) THEN [ok |-> TRUE, built |-> <<>>, log |-> <<>>]
    ELSE LET point == points[i]
             needs == NeedsEmbedding(point)
             vector == IF needs THEN Embed(point.content) ELSE point.vector
             enc == IF needs THEN <<Call("encode", "ok")>> ELSE <<>>
         IN IF needs /\ failAt = i
            THEN [ok |-> FALSE, built |-> <<>>, log |-> <<Call("encode", "error")>>]
            ELSE IF vector = NoVec
            THEN [ok |-> FALSE, built |-> <<>>, log |-> enc]
            ELSE LET rest == BuildPoints(points, i + 1, failAt, n)
                 IN [ok |-> rest.ok,
                     built |-> IF rest.ok THEN <<PointOf(point, vector, n, i)>> \o rest.built
                               ELSE <<>>,
                     log |-> enc \o rest.log]

(* POST /vectors/upsert, lines 228-269 *)
upsert_vectors(st, collection, points, failAt, n) ==
    LET base == [NoCall EXCEPT !.kind = "rest_upsert", !.coll = collection,
                               !.points = points]
        b == BuildPoints(points, 1, failAt, n)
        res == IF failAt > Len(points) THEN "error"
               ELSE StoreUpsertResult(st, collection, b.built)
    IN IF ~b.ok
       THEN [base EXCEPT !.log = b.log, !.status = 500, !.out = "upsert_failed"]
       ELSE IF res # "ok"
       THEN [base EXCEPT !.log = b.log \o <<Call("upsert", res)>>, !.status = 500,
                         !.out = "upsert_failed"]
       ELSE [base EXCEPT !.log = b.log \o <<Call("upsert", "ok")>>, !.status = 200,
                         !.out = "success",
                         !.ids = [k \in 1..Len(b.built) |-> b.built[k].id]]

(* What the request's single store upsert call is given.                   *)
UpsertArgument(points, failAt, n) == BuildPoints(points, 1, failAt, n).built

RestUpsert ==
    /\ nreqs < MaxReqs
    /\ nreqs' = nreqs + 1
    /\ \E points \in PointLists, carg \in CollArgs :
       \E failAt \in 0..(Len(points) + 1) :
         LET collection == IF carg = Absent THEN cfg.collection_name ELSE carg
             call == upsert_vectors(colls, collection, points, failAt, nreqs')
         IN /\ (failAt \in 1..Len(points) => NeedsEmbedding(points[failAt]))
            /\ last' = call
            /\ colls' = IF call.status = 200
                        THEN StoreUpsert(colls, collection,
                                         UpsertArgument(points, failAt, nreqs'))
                        ELSE colls
    /\ UNCHANGED <<pc, flight>>
    /\ UNCHANGED gateway

----------------------------------------------------------------------------
(* The MCP HTTP endpoint of mcp_server.py: POST / with a JSON-RPC body.    *)
(* Its tool handlers run in the one server process, where nothing comes    *)
(* between the store calls of a handler.                                   *)

(* MCPHandler._handle_store, lines 154-202, run from its first line to its *)
(* return; fault names the adapter call that raises, if any.  The result   *)
(* is the call's record and the store it leaves.                           *)
handle_store(st, content, collection, fault, n) ==
    LET base == [NoCall EXCEPT !.kind = "mcp_store", !.coll = collection, !.text = content]
    IN IF StoreValidate(content) = "no_content"
       THEN [call |-> [base EXCEPT !.out = "no_content"], st |-> st]
       ELSE IF fault = "encode"
       THEN [call |-> [base EXCEPT !.log = <<Call("encode", "error")>>,
                                   !.out = "store_failed"],
             st |-> st]
       ELSE LET f == [NoFlight EXCEPT !.coll = collection, !.content = content,
                                      !.id = uuid4(n, 1), !.vector = Embed(content)]
                got == IF fault = "get_collection" THEN "error"
                       ELSE StoreGetCollection(st, collection)
                creating == AfterGetCollection(got) = "create"
                made == IF fault = "create_collection" THEN "error"
                        ELSE StoreCreateResult(st, collection)
                st2 == IF creating /\ made = "ok"
                       THEN StoreCreate(st, collection, cfg.vector_size, "cosine") ELSE st
                log2 == <<Call("encode", "ok"), Call("get_collection", got)>>
                        \o (IF creating THEN <<Call("create_collection", made)>> ELSE <<>>)
                pts == <<StorePoint(f)>>
                res == IF fault = "upsert" THEN "error"
                       ELSE StoreUpsertResult(st2, collection, pts)
            IN IF creating /\ AfterCreateCollection(made) = "failed"
               THEN [call |-> [base EXCEPT !.log = log2, !.out = "store_failed"], st |-> st2]
               ELSE IF res # "ok"
               THEN [call |-> [base EXCEPT !.log = Append(log2, Call("upsert", res)),
                                           !.out = "store_failed"],
                     st |-> st2]
               ELSE [call |-> [base EXCEPT !.log = Append(log2, Call("upsert", "ok")),
                                           !.ids = <<f.id>>, !.out = "stored"],
                     st |-> StoreUpsert(st2, collection, pts)]

(* MCPHandler._handle_list_collections, lines 257-276 *)
handle_list_collections(st, fault) ==
    LET base == [NoCall EXCEPT !.kind = "mcp_list"]
        res == IF fault = "get_collections" THEN "error" ELSE "ok"
    IN [base EXCEPT !.log = <<Call("get_collections", res)>>,
                    !.out = IF res # "ok" THEN "list_failed"
                            ELSE IF \A c \in Colls : ~st[c].exists THEN "no_collections"
                            ELSE "collections"]

(* The tools of lines 204-211. *)
ToolNames == {"qdrant-store", "qdrant-find", "qdrant-list-collections",
              "qdrant-create-collection"}

(* The methods of lines 85, 100 and 183. *)
Methods == {"initialize", "tools/list", "tools/call"}

(* The tool texts that report a failure of the operation. *)
FailureOuts == {"no_content", "store_failed", "no_query", "search_failed",
                "list_failed", "no_name", "create_failed"}

(* lines 65-67: json.loads(body).  Bytes that are not UTF-8 raise          *)
(* UnicodeDecodeError, text that is not JSON raises JSONDecodeError, and   *)
(* any JSON value, an object or not, is returned.                          *)
json_loads(body) ==
    CASE body.form = "undecodable" -> "UnicodeDecodeError"
      [] body.form = "malformed" -> "JSONDecodeError"
      [] OTHER -> body.form

(* rpc_request.get("id"): None, JSON null, when the object has no id.      *)
RequestId(body) == IF body.id = Absent THEN NoneV ELSE body.id

RpcResult(body, text) ==
    [NoReply EXCEPT !.body = body, !.status = 200, !.form = "object", !.jsonrpc = "2.0",
                    !.result = TRUE, !.id = RequestId(body), !.text = text]

RpcError(body, code, text, id) ==
    [NoReply EXCEPT !.body = body, !.status = 200, !.form = "object", !.jsonrpc = "2.0",
                    !.error = TRUE, !.code = code, !.id = id, !.text = text]

InternalErrorWithoutId(body, idRead) == RpcError(body, -32603, "Internal error", NoneV)

(* lines 235-246: the handler of every exception; the id is the request's  *)
(* when line 82 was reached (`"request_id" in locals()`).                  *)
InternalError(body, idRead) ==
    RpcError(body, -32603, "Internal error", IF idRead THEN RequestId(body) ELSE NoneV)

RouteUnknownToList(method) == IF method \in Methods THEN method ELSE "tools/list"

(* lines 85, 100, 183 and 226: the branch a method takes. *)
Route(method) == IF method \in Methods THEN method ELSE "not_found"

(* lines 204-215: the tool handler a tools/call runs. *)
RunTool(st, body, n) ==
    CASE body.tool = "qdrant-store" ->
            handle_store(st, body.arg, cfg.collection_name, body.fault, n)
      [] body.tool = "qdrant-find" ->
            [call |-> handle_find(st, body.arg, cfg.top_k, cfg.min_score,
                                  cfg.collection_name,
                                  IF body.fault \in FindFaults THEN body.fault ELSE "none"),
             st |-> st]
      [] body.tool = "qdrant-list-collections" ->
            [call |-> handle_list_collections(st, body.fault), st |-> st]
      [] body.tool = "qdrant-create-collection" ->
            LET call == handle_create_collection(st, body.arg, cfg.vector_size,
                                                 body.fault = "create_collection")
            IN [call |-> call,
                st |-> IF call.out = "created"
                       THEN StoreCreate(st, body.arg, cfg.vector_size, "cosine") ELSE st]
      [] OTHER -> [call |-> [NoCall EXCEPT !.kind = "mcp_unknown", !.out = "unknown_tool"],
                   st |-> st]

ToolResponseFailureAsError(body, out) ==
    IF out \in FailureOuts THEN RpcError(body, -32603, out, RequestId(body))
    ELSE RpcResult(body, out)

(* lines 217-225: the answer to a tools/call, the texts of the handler's   *)
(* result as content blocks.                                               *)
ToolResponse(body, out) == RpcResult(body, out)

(* mcp_handler is set by startup_event (lines 24-43) and is None before.   *)
HandlerReady == boot["mcp_http"].phase = "serving"

ServerInfoBuiltIn ==
    [protocolVersion |-> DefaultSettings.protocol_version,
     name |-> DefaultSettings.server_name, version |-> DefaultSettings.server_version]

(* lines 88-98: the result of initialize *)
ServerInfo ==
    [protocolVersion |-> cfg.protocol_version, name |-> cfg.server_name,
     version |-> cfg.server_version]

(* mcp_server.py lines 46-246: the answer to one POST body, the tool call  *)
(* made for it and the store it leaves.                                    *)
handle_mcp_request(st, body, n) ==
    LET parsed == json_loads(body)
        quiet(r) == [reply |-> r, call |-> NoCall, st |-> st]
    IN IF ~cfg.loaded
       THEN quiet(RpcError(body, -32603, "Configuration not loaded", NoneV))
       ELSE IF parsed = "JSONDecodeError"
       THEN quiet(RpcError(body, -32700, "Parse error", NoneV))
       ELSE IF parsed = "UnicodeDecodeError" THEN quiet(InternalError(body, FALSE))
       ELSE IF parsed # "object" THEN quiet(InternalError(body, FALSE))
       ELSE IF Route(body.method) = "initialize"
       THEN quiet([RpcResult(body, "server_info") EXCEPT !.info = ServerInfo])
       ELSE IF Route(body.method) = "tools/list"
       THEN quiet([RpcResult(body, "tools") EXCEPT !.tools = ToolNames])
       ELSE IF Route(body.method) = "tools/call"
       THEN IF body.params # "object" THEN quiet(InternalError(body, TRUE))
            ELSE IF ~HandlerReady
            THEN quiet(RpcError(body, -32603, "MCP handler not initialized",
                                RequestId(body)))
            ELSE LET ran == RunTool(st, body, n)
                 IN [reply |-> ToolResponse(body, ran.call.out), call |-> ran.call,
                     st |-> ran.st]
       ELSE quiet(RpcError(body, -32601, "Method not found", RequestId(body)))

(* The POST bodies the endpoint is sent. *)
JsonRpcFields == {"2.0", "1.0", Absent}
IdFields == {"7", Absent}
StoreFaults == {"none", "encode", "get_collection", "create_collection", "upsert"}

ToolCalls ==
    {[tool |-> "qdrant-store", arg |-> "", fault |-> "none"]}
    \cup {[tool |-> "qdrant-store", arg |-> "a", fault |-> f] : f \in StoreFaults}
    \cup {[tool |-> "qdrant-find", arg |-> "", fault |-> "none"]}
    \cup {[tool |-> "qdrant-find", arg |-> "a", fault |-> f] : f \in FindFaults}
    \cup {[tool |-> "qdrant-list-collections", arg |-> "", fault |-> f] :
              f \in {"none", "get_collections"}}
    \cup {[tool |-> "qdrant-create-collection", arg |-> "", fault |-> "none"]}
    \cup {[tool |-> "qdrant-create-collection", arg |-> "notes", fault |-> f] :
              f \in {"none", "create_collection"}}
    \cup {[tool |-> t, arg |-> "", fault |-> "none"] : t \in {"invalid_tool", Absent}}
    \cup {[tool |-> t, arg |-> "a", fault |-> "none"] : t \in {"store", "find"}}
    \cup {[tool |-> "list_collections", arg |-> "", fault |-> "none"]}

OtherMethods == {"initialize", "tools/list", "notifications/initialized",
                 "invalid/method", Absent}

BatchIds == {<<"batch-1", "batch-2">>}

RpcBodies ==
    {[NoBody EXCEPT !.form = f] : f \in {"undecodable", "malformed", "null"}}
    \cup {[NoBody EXCEPT !.form = "array", !.batch = b] : b \in BatchIds}
    \cup {[NoBody EXCEPT !.form = "object", !.jsonrpc = j, !.id = i, !.method = m,
                         !.params = "object"] :
              j \in JsonRpcFields, i \in IdFields, m \in OtherMethods}
    \cup {[NoBody EXCEPT !.form = "object", !.jsonrpc = j, !.id = i,
                         !.method = "tools/call", !.params = "object",
                         !.tool = t.tool, !.arg = t.arg, !.fault = t.fault] :
              j \in JsonRpcFields, i \in IdFields, t \in ToolCalls}
    \cup {[NoBody EXCEPT !.form = "object", !.jsonrpc = j, !.id = i,
                         !.method = "tools/call", !.params = "array"] :
              j \in JsonRpcFields, i \in IdFields}

HandleMcpRequest ==
    /\ boot["mcp_http"].phase \in {"down", "serving"}
    /\ nreqs < MaxReqs
    /\ nreqs' = nreqs + 1
    /\ \E body \in RpcBodies :
         LET r == handle_mcp_request(colls, body, nreqs')
         IN /\ reply' = r.reply
            /\ last' = r.call
            /\ colls' = r.st
    /\ UNCHANGED <<pc, flight, boot, live, cfg, pending, environ, hook>>

----------------------------------------------------------------------------
(* Startup of the three entry points, and the first requests they serve.   *)

(* wait_for_qdrant(max_retries = 30), server.py line 119 *)
MaxRetries == 30
Delay == 1

(* The store becomes reachable or unreachable. *)
StoreChanges ==
    /\ live' = ~live
    /\ UNCHANGED <<colls, pc, flight, last, nreqs, reply, boot, cfg, pending, environ, hook>>

(* server.py lines 32-40: lifespan begins and enters wait_for_qdrant. *)
StartRest ==
    /\ boot["rest"].phase = "down"
    /\ boot' = [boot EXCEPT !["rest"].phase = "connecting"]
    /\ UNCHANGED <<colls, pc, flight, last, nreqs, reply, live, cfg, pending, environ, hook>>

(* server.py lines 126-141: one round of wait_for_qdrant's loop.  The      *)
(* round succeeds when get_collections answers; the last failing round     *)
(* returns False and lifespan exits the process (lines 41-43).             *)
wait_for_qdrant_without_limit(b, up) ==
    IF up THEN [b EXCEPT !.attempts = @ + 1, !.confirmed = TRUE, !.phase = "loading"]
    ELSE IF b.attempts + 1 < MaxRetries
    THEN [b EXCEPT !.attempts = @ + 1, !.slept = @ + Delay]
    ELSE b

(* slept: the seconds of time.sleep(delay) so far, delay = 1 (line 119),   *)
(* after every failed round but the last (lines 134-136).                  *)
wait_for_qdrant(b, up) ==
    IF up THEN [b EXCEPT !.attempts = @ + 1, !.confirmed = TRUE, !.phase = "loading"]
    ELSE IF b.attempts + 1 < MaxRetries
    THEN [b EXCEPT !.attempts = @ + 1, !.slept = @ + Delay]
    ELSE [b EXCEPT !.attempts = @ + 1, !.phase = "exited"]

WaitForQdrant ==
    /\ boot["rest"].phase = "connecting"
    /\ boot' = [boot EXCEPT !["rest"] = wait_for_qdrant(@, live)]
    /\ UNCHANGED <<colls, pc, flight, last, nreqs, reply, live, cfg, pending, environ, hook>>

(* server.py lines 44-55: the model is loaded, the handler built and the   *)
(* default collection ensured; an exception of ensure_default_collection   *)
(* ends the startup.                                                       *)
FinishRestStartup ==
    /\ boot["rest"].phase = "loading"
    /\ IF live
       THEN /\ colls' = ensure_default_collection(colls)
            /\ boot' = [boot EXCEPT !["rest"].model = TRUE, !["rest"].phase = "serving"]
       ELSE /\ colls' = colls
            /\ boot' = [boot EXCEPT !["rest"].model = TRUE, !["rest"].phase = "exited"]
    /\ UNCHANGED <<pc, flight, last, nreqs, reply, live, cfg, pending, environ, hook>>

(* mcp_server.py lines 24-43 and server.py lines 319-337: the client       *)
(* object is built without a call to the store, the model is loaded and    *)
(* the server starts to serve.                                             *)
startup_event(b) == [b EXCEPT !.model = TRUE, !.phase = "serving"]

StartMcp(e) ==
    /\ e \in Procs
    /\ boot[e].phase = "down"
    /\ boot' = [boot EXCEPT ![e] = startup_event(@)]
    /\ UNCHANGED <<colls, pc, flight, last, nreqs, reply, live, cfg, pending, environ, hook>>

(* GET /collections/{collection_name}, server.py lines 181-197 *)
get_collection(st, collection_name, fault) ==
    LET base == [NoCall EXCEPT !.kind = "rest_get", !.coll = collection_name]
        res == IF fault THEN "error" ELSE StoreGetCollection(st, collection_name)
    IN [base EXCEPT !.log = <<Call("get_collection", res)>>,
                    !.status = IF res = "ok" THEN 200 ELSE 404,
                    !.out = IF res = "ok" THEN "collection" ELSE "not_found"]

(* A request the REST server handles once it serves. *)
ServeRest ==
    /\ boot["rest"].phase = "serving"
    /\ nreqs < MaxReqs
    /\ nreqs' = nreqs + 1
    /\ \E name \in Colls : last' = get_collection(colls, name, ~live)
    /\ boot' = [boot EXCEPT !["rest"].served = TRUE]
    /\ UNCHANGED <<colls, pc, flight, reply, live, cfg, pending, environ, hook>>

(* A qdrant-list-collections call an MCP server handles once it serves. *)
ServeMcp(e) ==
    /\ e \in Procs
    /\ boot[e].phase = "serving"
    /\ nreqs < MaxReqs
    /\ nreqs' = nreqs + 1
    /\ last' = handle_list_collections(colls, IF live THEN "none" ELSE "get_collections")
    /\ boot' = [boot EXCEPT ![e].served = TRUE]
    /\ UNCHANGED <<colls, pc, flight, reply, live, cfg, pending, environ, hook>>

----------------------------------------------------------------------------
(* Specifications.  SpecStore: the write path of the MCP tools, two        *)
(* processes racing on the store, with explicit creation beside it.        *)
(* SpecRest: the REST endpoints.  SpecFind: the MCP store tool feeding the *)
(* find tool and the REST search.                                          *)

NextStore ==
    \/ \E p \in Procs :
        \/ HandleStoreBegin(p)
        \/ HandleStoreEnsure(p)
        \/ HandleStoreCreate(p)
        \/ HandleStoreUpsert(p)
        \/ HandleCreateCollection(p)
    \/ RestCreateCollection

NextRest ==
    \/ RestCreateCollection
    \/ RestUpsert
    \/ RestSearch

NextFind ==
    \/ \E p \in Procs :
        \/ HandleStoreBegin(p)
        \/ HandleStoreEnsure(p)
        \/ HandleStoreCreate(p)
        \/ HandleStoreUpsert(p)
        \/ HandleFind(p)
    \/ RestSearch

NextRace ==
    \E p \in Procs :
        \/ HandleStoreBegin(p)
        \/ HandleStoreEnsure(p)
        \/ HandleStoreCreate(p)
        \/ HandleStoreUpsert(p)

(* SpecMetric: the qdrant-store tool of a deployment whose settings name   *)
(* any of the metrics and sizes, on a store without collections.           *)
InitMetric ==
    /\ colls = NoCollections
    /\ pc = [p \in Procs |-> "idle"]
    /\ flight = [p \in Procs |-> NoFlight]
    /\ last = NoCall
    /\ nreqs = 0
    /\ reply = NoReply
    /\ boot = [e \in EntryPoints |-> Serving(e)]
    /\ live = TRUE
    /\ cfg \in VectorSettings
    /\ pending = NoPending
    /\ environ = NoEnviron
    /\ hook = NoHook

SpecMetric == InitMetric /\ [][NextRace]_vars

SpecStore == Init /\ [][NextStore]_vars
SpecRace == Init /\ [][NextRace]_vars
SpecRest == InitRest /\ [][NextRest]_vars
SpecFind == Init /\ [][NextFind]_vars

----------------------------------------------------------------------------
(* The precompact hook (hooks/precompact_vectorize.py): it reads the       *)
(* transcript line by line, stores each long message through               *)
(* POST /vectors/upsert of the REST server and writes the transcript back. *)

(* The lines of a transcript.  A line is blank, text that is not JSON      *)
(* (with or without spaces before its newline), a JSON value that is not   *)
(* an object, or a message object; tokens is the message's                 *)
(* original_tokens field, -1 when it has none.                             *)
BlankLine == [kind |-> "blank", role |-> "", content |-> "", fmt |-> "", trail |-> FALSE,
              tokens |-> -1]

HookRoles == {"user", "assistant", "system"}
HookContents == {"", "edge", "long"}

HookLines ==
    {BlankLine}
    \cup {[BlankLine EXCEPT !.kind = "text", !.trail = t] : t \in BOOLEAN}
    \cup {[BlankLine EXCEPT !.kind = "value"]}
    \cup {[BlankLine EXCEPT !.kind = "msg", !.role = r, !.content = c, !.fmt = "spaced"] :
              r \in HookRoles, c \in HookContents}

MaxLines == 2

Transcripts == UNION {[1..n -> HookLines] : n \in 0..MaxLines}

(* line 57: num_tokens(txt), the hook's tokenizer *)
num_tokens(txt) == count_tokens(txt)

(* line 199: `not line.strip()` *)
IsBlank(line) == line.kind = "blank"

(* line 206: line.rstrip() *)
rstrip(line) == [line EXCEPT !.trail = FALSE]

(* line 226: orjson.dumps(msg).decode(), the compact form of the object *)
orjson_dumps(msg) == [msg EXCEPT !.fmt = "compact"]

(* line 222: f"[[VEC:{uid}]]" *)
Stub(uid) == "[[VEC:" \o uid \o "]]"

(* lines 229-231: the text "\n".join(updated) + "\n" as the lines of the    *)
(* file; without any line the text is one newline, a single blank line.    *)
WrittenLines(updated) == IF updated = <<>> THEN <<BlankLine>> ELSE updated

(* lines 210-214: the message is vectorized *)
ShouldVectorize(msg) ==
    /\ msg.role \in {"user", "assistant"}
    /\ Truthy(msg.content)
    /\ num_tokens(msg.content) > MAX_TOKENS

(* ensure_collection_exists, lines 87-111: GET /collections/{COLLECTION},  *)
(* then POST /collections unless the GET answered 200; up: the REST server *)
(* answers.                                                                *)
ensure_collection_exists(st, up) ==
    IF ~up THEN [ok |-> FALSE, st |-> st]
    ELSE IF get_collection(st, COLLECTION, FALSE).status = 200 THEN [ok |-> TRUE, st |-> st]
    ELSE LET made == create_collection(st, COLLECTION, VECTOR_SIZE, "cosine", FALSE)
         IN [ok |-> made.status = 200,
             st |-> IF made.status = 200
                    THEN StoreCreate(st, COLLECTION, VECTOR_SIZE, DistanceOf("cosine"))
                    ELSE st]

UidWhateverAnswer(uid, status) == uid

(* lines 140-144: the id when the answer is 200, else None *)
UidIfStored(uid, status) == IF status = 200 THEN uid ELSE NoneV

(* What the REST server may do with the hook's upsert: answer after        *)
(* storing, fail at the embedding, fail at the store, or not answer.       *)
UpsertOutcomes == {"ok", "encode", "upsert", "unreachable"}

(* store_vector, lines 114-148: one point with a fresh id and the content; *)
(* n numbers the call.  The result is the id or None, the answer's status  *)
(* (0 when the request raised) and the store after the call.               *)
store_vector(st, content, n, outcome) ==
    LET uid == uuid4(n, 1)
        points == <<[id |-> uid, vector |-> NoVec, content |-> content]>>
        failAt == CASE outcome = "encode" -> 1 [] outcome = "upsert" -> 2 [] OTHER -> 0
        call == upsert_vectors(st, COLLECTION, points, failAt, n)
    IN IF outcome = "unreachable" THEN [uid |-> NoneV, id |-> uid, status |-> 0, st |-> st]
       ELSE [uid |-> UidIfStored(uid, call.status), id |-> uid, status |-> call.status,
             st |-> IF call.status = 200
                    THEN StoreUpsert(st, COLLECTION, UpsertArgument(points, failAt, n))
                    ELSE st]

(* main, lines 151-191: the hook is started on a transcript and makes sure *)
(* of the collection; it exits when it cannot.                             *)
HookStart ==
    /\ hook.phase = "ready"
    /\ \E up \in BOOLEAN :
         LET made == ensure_collection_exists(colls, up)
         IN /\ colls' = made.st
            /\ hook' = [hook EXCEPT !.phase = IF made.ok THEN "running" ELSE "exited",
                                    !.pos = 1]
    /\ UNCHANGED <<pc, flight, last, nreqs, reply, boot, live, cfg, pending, environ>>

(* main, lines 198-226: one turn of the loop over the lines.  A JSON value *)
(* that is not an object has no .get: the exception ends the hook (lines   *)
(* 244-246) before anything is written.                                    *)
HookLine ==
    /\ hook.phase = "running"
    /\ hook.pos <= Len(hook.lines)
    /\ LET line == hook.lines[hook.pos]
           next == [hook EXCEPT !.pos = @ + 1]
       IN CASE IsBlank(line) -> hook' = next /\ colls' = colls
            [] line.kind = "text" ->
                 /\ hook' = [next EXCEPT !.updated = Append(@, rstrip(line))]
                 /\ colls' = colls
            [] line.kind = "value" ->
                 /\ hook' = [hook EXCEPT !.phase = "exited"]
                 /\ colls' = colls
            [] OTHER ->
                 IF ~ShouldVectorize(line)
                 THEN /\ hook' = [next EXCEPT !.updated = Append(@, orjson_dumps(line))]
                      /\ colls' = colls
                 ELSE \E outcome \in UpsertOutcomes :
                        LET content == line.content
                            r == store_vector(colls, content, hook.pos, outcome)
                            heard == IF r.status = 0 THEN hook.answers
                                     ELSE Append(hook.answers,
                                                 [id |-> r.id, content |-> content,
                                                  status |-> r.status])
                            msg == IF r.uid # NoneV
                                   THEN [line EXCEPT !.content = Stub(r.uid),
                                                     !.tokens = num_tokens(content)]
                                   ELSE line
                        IN /\ colls' = r.st
                           /\ hook' = [next EXCEPT
                                         !.updated = Append(@, orjson_dumps(msg)),
                                         !.answers = heard,
                                         !.vectorized = IF r.uid # NoneV THEN @ + 1 ELSE @]
    /\ UNCHANGED <<pc, flight, last, nreqs, reply, boot, live, cfg, pending, environ>>

(* main, lines 228-231: the transcript is replaced by the rewritten lines. *)
HookWrite ==
    /\ hook.phase = "running"
    /\ hook.pos > Len(hook.lines)
    /\ hook' = [hook EXCEPT !.phase = "done", !.file = WrittenLines(hook.updated)]
    /\ UNCHANGED <<colls, pc, flight, last, nreqs, reply, boot, live, cfg, pending,
                   environ>>

(* SpecHook: the hook runs once over any transcript of up to MaxLines      *)
(* lines, against a REST server whose store has no collection, the default *)
(* one, or a collection of the hook's name with another vector size.       *)
InitHook ==
    /\ cfg = DefaultSettings
    /\ colls \in {NoCollections, ensure_default_collection(NoCollections),
                  StoreCreate(NoCollections, COLLECTION, OtherSize, "cosine")}
    /\ pc = [p \in Procs |-> "idle"]
    /\ flight = [p \in Procs |-> NoFlight]
    /\ last = NoCall
    /\ nreqs = 0
    /\ reply = NoReply
    /\ boot = [e \in EntryPoints |-> Serving(e)]
    /\ live = TRUE
    /\ pending = NoPending
    /\ environ = NoEnviron
    /\ \E t \in Transcripts : hook = [NoHook EXCEPT !.phase = "ready", !.lines = t, !.file = t]

NextHook ==
    \/ HookStart
    \/ HookLine
    \/ HookWrite

SpecHook == InitHook /\ [][NextHook]_vars

(* SpecDefaults: searches on both surfaces while the global settings may   *)
(* be replaced between the construction of a REST request and its handler. *)
NextDefaults ==
    \/ ConstructSearch
    \/ RunSearch
    \/ SetupApp
    \/ \E p \in Procs : HandleFind(p)

SpecDefaults == InitRest /\ [][NextDefaults]_vars

(* Config.load_from_file, config.py lines 133-149: without the file the   *)
(* built-in settings; with it parse_obj(data), where a field the file does *)
(* not give takes its built-in default.                                    *)
load_from_file(src) ==
    IF ~src.exists THEN DefaultSettings
    ELSE [DefaultSettings EXCEPT
            !.collection_name = IF src.file.collection_name = Absent THEN @
                                ELSE src.file.collection_name,
            !.top_k = IF src.file.top_k = -1 THEN @ ELSE src.file.top_k,
            !.server_name = IF src.file.server_name = Absent THEN @
                            ELSE src.file.server_name]

(* Config.load_from_env, lines 151-194: os.getenv(NAME, default) for each  *)
(* setting it reads.                                                       *)
load_from_env(src) ==
    [DefaultSettings EXCEPT
        !.collection_name = IF src.env.collection_name = Absent THEN "claude_vectors"
                            ELSE src.env.collection_name,
        !.top_k = IF src.env.top_k = -1 THEN 10 ELSE src.env.top_k,
        !.server_name = IF src.env.server_name = Absent THEN "qdrant-mcp"
                        ELSE src.env.server_name]

(* load_config, lines 213-220: the file when it exists, else the           *)
(* environment.                                                            *)
load_config(src) == IF src.exists THEN load_from_file(src) ELSE load_from_env(src)

(* The files and environments of a deployment: each of three settings      *)
(* given or not in the file (when there is one) and in the environment.    *)
GivenInFile ==
    [collection_name : {Absent, "notes"}, top_k : {-1, ProductionTopK},
     server_name : {Absent, "file-mcp"}]

GivenInEnv ==
    [collection_name : {Absent, "env_vectors"}, top_k : {-1, 5},
     server_name : {Absent, "env-mcp"}]

Environs ==
    {[exists |-> TRUE, file |-> f, env |-> e] : f \in GivenInFile, e \in GivenInEnv}
    \cup {[exists |-> FALSE, file |-> NoSettingsGiven, env |-> e] : e \in GivenInEnv}

(* `config = load_config()`, config.py line 224 *)
LoadConfig ==
    /\ ~cfg.loaded
    /\ cfg' = load_config(environ)
    /\ UNCHANGED <<colls, pc, flight, last, nreqs, reply, boot, live, pending, environ, hook>>

(* SpecConfig: the configuration is loaded once, from any file and         *)
(* environment.                                                            *)
InitConfig ==
    /\ colls = NoCollections
    /\ pc = [p \in Procs |-> "idle"]
    /\ flight = [p \in Procs |-> NoFlight]
    /\ last = NoCall
    /\ nreqs = 0
    /\ reply = NoReply
    /\ boot = [e \in EntryPoints |-> Down]
    /\ live = TRUE
    /\ cfg = NotLoaded
    /\ pending = NoPending
    /\ environ \in Environs
    /\ hook = NoHook

NextConfig == LoadConfig

SpecConfig == InitConfig /\ [][NextConfig]_vars

(* SpecRpc: the MCP HTTP endpoint, one POST after the other. *)
NextRpc == HandleMcpRequest

SpecRpc == Init /\ [][NextRpc]_vars

(* SpecRpcCold: the endpoint of an application whose startup event may not *)
(* have run (TestClient(app), test_mcp_server.py lines 15-24) and whose     *)
(* settings are the built-in ones, a deployment's, or not loaded.          *)
McpSettings ==
    {DefaultSettings, NotLoaded,
     [DefaultSettings EXCEPT !.server_name = "claude-memory", !.server_version = "2.1.0",
                             !.protocol_version = "2025-03-26"]}

InitRpcCold ==
    /\ cfg \in McpSettings
    /\ colls \in {NoCollections, ensure_default_collection(NoCollections)}
    /\ pc = [p \in Procs |-> "idle"]
    /\ flight = [p \in Procs |-> NoFlight]
    /\ last = NoCall
    /\ nreqs = 0
    /\ reply = NoReply
    /\ boot \in {[e \in EntryPoints |-> Serving(e)],
                 [[e \in EntryPoints |-> Serving(e)] EXCEPT !["mcp_http"] = Down]}
    /\ live = TRUE
    /\ pending = NoPending
    /\ environ = NoEnviron
    /\ hook = NoHook

SpecRpcCold == InitRpcCold /\ [][NextRpc]_vars

(* SpecBoot: the entry points start against a store that may or may not    *)
(* answer, and serve their first requests.                                 *)
InitBoot ==
    /\ colls = NoCollections
    /\ pc = [p \in Procs |-> "idle"]
    /\ flight = [p \in Procs |-> NoFlight]
    /\ last = NoCall
    /\ nreqs = 0
    /\ reply = NoReply
    /\ boot = [e \in EntryPoints |-> Down]
    /\ live \in BOOLEAN
    /\ cfg = DefaultSettings
    /\ pending = NoPending
    /\ environ = NoEnviron
    /\ hook = NoHook

NextBoot ==
    \/ StoreChanges
    \/ StartRest
    \/ WaitForQdrant
    \/ FinishRestStartup
    \/ \E e \in Procs : StartMcp(e)
    \/ ServeRest
    \/ \E e \in Procs : ServeMcp(e)

SpecBoot == InitBoot /\ [][NextBoot]_vars

(* wait_for_qdrant is a loop of the starting process: while it has a round *)
(* to make, it makes it.                                                   *)
SpecBootLive == SpecBoot /\ WF_vars(WaitForQdrant)

----------------------------------------------------------------------------
(* Properties.                                                             *)

TypeOK ==
    /\ \A c \in Colls : colls[c].exists \/ colls[c].points = {}
    /\ pc \in [Procs -> {"idle", "ensure", "create", "upsert"}]
    /\ nreqs \in 0..MaxReqs

Stores(call) == call.kind = "mcp_store"

HasId(c, id) == \E pt \in colls[c].points : pt.id = id

FirstCallLog ==
    <<Call("encode", "ok"), Call("get_collection", "not_found"),
      Call("create_collection", "ok"), Call("upsert", "ok")>>

SecondCallLog ==
    <<Call("encode", "ok"), Call("get_collection", "ok"), Call("upsert", "ok")>>

(* C1: when two qdrant-store calls on the same collection run one after    *)
(* the other, the collection is missing before the first and no adapter    *)
(* call faults, then the first call looks the collection up, creates it,   *)
(* upserts and reports success, and the second call finds it, does not     *)
(* call create_collection again (so it cannot fail with "already           *)
(* exists"), upserts and reports success; both points are in the store.    *)
C1_SequentialStoresCreateOnce ==
    /\ CreatedIt(last) =>
          /\ last.log = FirstCallLog
          /\ last.out = "stored"
          /\ Len(last.ids) = 1 /\ HasId(last.coll, last.ids[1])
    /\ (Stores(last) /\ last.pred = "first" /\ Truthy(last.text) /\ NoError(last.log)) =>
          /\ last.log = SecondCallLog
          /\ last.out = "stored"
          /\ Len(last.ids) = 1 /\ HasId(last.coll, last.ids[1])

C1_Witness ==
    /\ Stores(last) /\ last.pred = "first"
    /\ last.log = SecondCallLog /\ last.out = "stored"
    /\ Cardinality(colls[last.coll].points) = 2

(* C2: a qdrant-store call that found its collection missing and whose     *)
(* create_collection was then answered "already exists" (another store     *)
(* call created it in between) still upserts its point and reports         *)
(* success.                                                                *)
C2_RaceSwallowed ==
    (/\ Stores(last)
     /\ Len(last.log) >= 3
     /\ last.log[2] = Call("get_collection", "not_found")
     /\ last.log[3] = Call("create_collection", "exists"))
    => /\ last.out = "stored"
       /\ Len(last.log) = 4 /\ last.log[4] = Call("upsert", "ok")

Creates(call) == call.kind \in {"mcp_create", "rest_create"}

C3_Reported ==
    /\ (Creates(last) /\ last.log = <<Call("create_collection", "ok")>>) =>
          /\ last.out = "created"
          /\ last.kind = "rest_create" => last.status = 200
          /\ colls[last.coll].exists
    /\ (Creates(last) /\ last.log = <<Call("create_collection", "exists")>>) =>
          /\ last.out = "create_failed"
          /\ last.kind = "rest_create" => last.status = 400

C3_Frame ==
    \A c \in Colls :
        colls[c].exists =>
            /\ colls'[c].exists
            /\ colls'[c].size = colls[c].size
            /\ colls'[c].distance = colls[c].distance
            /\ nreqs' # nreqs => colls'[c] = colls[c]

(* C3: explicit creation is not idempotent.  A create_collection request   *)
(* (the qdrant-create-collection tool or POST /collections) for a name     *)
(* the store does not hold is reported as created and the collection       *)
(* exists afterwards; for a name the store already holds it is reported    *)
(* as a failure (REST: status 400; MCP: a "Failed to create collection"    *)
(* text), and no step changes the size or the distance of an existing      *)
(* collection or, on a request, its points.                                *)
C3_ExplicitCreateNotIdempotent == [](C3_Reported) /\ [][C3_Frame]_vars

C3_Witness ==
    /\ last.kind = "rest_create"
    /\ last.log = <<Call("create_collection", "exists")>>
    /\ last.status = 400
    /\ colls[last.coll].size # last.size

StepRank(op) ==
    CASE op = "encode" -> 1
      [] op = "get_collection" -> 2
      [] op = "create_collection" -> 3
      [] op = "upsert" -> 4

OrderedLog(log) ==
    /\ \A i \in 1..Len(log) : log[i].op \in {"encode", "get_collection", "create_collection", "upsert"}
    /\ \A i, j \in 1..Len(log) : i < j => StepRank(log[i].op) < StepRank(log[j].op)
    /\ \A i \in 1..Len(log) :
          /\ log[i].op = "get_collection" => i = 2 /\ log[1] = Call("encode", "ok")
          /\ log[i].op = "create_collection" =>
                i = 3 /\ log[2].op = "get_collection" /\ log[2].res # "ok"
          /\ log[i].op = "upsert" =>
                i > 2 /\ log[i - 1] \in {Call("get_collection", "ok"),
                                         Call("create_collection", "ok")}
          /\ (log[i].res # "ok" /\ log[i].op # "get_collection") => i = Len(log)

(* C8: the adapter calls of one qdrant-store call are made in the order    *)
(* embed, get_collection, create_collection, upsert: the collection is     *)
(* looked up only after the embedding succeeded, created only after a      *)
(* lookup that did not find it, the upsert is issued only right after a    *)
(* successful lookup or creation, a failed embedding, creation or upsert   *)
(* is the call's last adapter call, and a call rejected for empty content  *)
(* makes no adapter call at all.                                           *)
C8_StoreStepsInOrder ==
    /\ \A p \in Procs : pc[p] # "idle" => OrderedLog(flight[p].log)
    /\ Stores(last) =>
          /\ OrderedLog(last.log)
          /\ ~Truthy(last.text) => last.log = <<>> /\ last.out = "no_content"
          /\ last.out = "stored" <=> (last.log # <<>> /\ last.log[Len(last.log)] = Call("upsert", "ok"))

C8_Witness ==
    /\ Stores(last)
    /\ last.log = <<Call("encode", "ok"), Call("get_collection", "error"),
                    Call("create_collection", "exists")>>
    /\ last.out = "store_failed"

Writes(call) == call.kind \in {"mcp_store", "rest_upsert"}

Made(call, op, res) == \E i \in 1..Len(call.log) : call.log[i] = Call(op, res)

MadeAny(call, op) == \E i \in 1..Len(call.log) : call.log[i].op = op

(* C4: every write creates a missing collection first: no write, through   *)
(* the qdrant-store tool or through POST /vectors/upsert, has its upsert   *)
(* refused because the collection does not exist.                          *)
C4_WriteAutoCreates ==
    Writes(last) => ~Made(last, "upsert", "not_found")

InvalidPoint(point) ==
    \/ (point.content = NoneV /\ point.vector = NoVec)
    \/ ~ValidId(point.id)

HasInvalidPoint(call) == \E i \in 1..Len(call.points) : InvalidPoint(call.points[i])

(* C6: a POST /vectors/upsert whose body holds a point with neither        *)
(* content nor vector, or a point whose id is not a UUID, is answered      *)
(* with status 400 and writes nothing.                                     *)
C6_InvalidPointsRejected400 ==
    (last.kind = "rest_upsert" /\ HasInvalidPoint(last)) =>
        /\ last.status = 400
        /\ ~Made(last, "upsert", "ok")

C7_Reported ==
    last.kind = "rest_upsert" =>
        /\ \A i \in 1..Len(last.log) :
              /\ last.log[i].op \in {"encode", "upsert"}
              /\ last.log[i].op = "upsert" => i = Len(last.log)
              /\ last.log[i].res # "ok" => i = Len(last.log)
        /\ Made(last, "encode", "error") => ~MadeAny(last, "upsert")
        /\ last.status \in {200, 500}
        /\ last.status = 200 <=> Made(last, "upsert", "ok")
        /\ last.status = 200 =>
              /\ Len(last.ids) = Len(last.points)
              /\ \A k \in 1..Len(last.ids) : HasId(last.coll, last.ids[k])
        /\ last.status = 500 => last.ids = <<>>

C7_Step ==
    (nreqs' # nreqs /\ last'.kind = "rest_upsert") =>
        IF last'.status = 200
        THEN \A k \in 1..Len(last'.ids) :
                \E pt \in colls'[last'.coll].points : pt.id = last'.ids[k]
        ELSE colls' = colls

(* C7: POST /vectors/upsert is all-or-nothing.  A request makes at most    *)
(* one store upsert call, after the embedding of every point; an           *)
(* embedding that fails ends the request with no upsert call; the          *)
(* request is answered 200 exactly when that one upsert succeeded, and     *)
(* then every point of the request is reported and is in the store;        *)
(* otherwise it is answered 500, reports no id and leaves the store as it  *)
(* was.                                                                    *)
C7_UpsertAllOrNothing == [](C7_Reported) /\ [][C7_Step]_vars

C7_Witness ==
    /\ last.kind = "rest_upsert"
    /\ Len(last.points) = 2
    /\ last.log = <<Call("encode", "ok"), Call("encode", "error")>>
    /\ last.status = 500

Finds(call) == call.kind \in {"mcp_find", "rest_search"}

(* C5: a find with an empty or missing query is refused before any         *)
(* adapter call: the qdrant-find tool and POST /vectors/search make no     *)
(* embedding call and no store call for it.                                *)
C5_EmptyQueryMakesNoCall ==
    (Finds(last) /\ last.text \in {"", Absent}) =>
        /\ last.log = <<>>
        /\ last.out \in {"no_query", "unprocessable"}

StoredByEmbedding(pt) == Truthy(pt.payload.content) /\ pt.vector \notin CallerVectors

Returned(call, pt) ==
    \E k \in 1..Len(call.hits) :
        /\ call.hits[k].payload = pt.payload
        /\ call.kind = "rest_search" => call.hits[k].id = pt.id

(* C9: round trip.  A point stored with content c and no vector of the     *)
(* caller's holds the embedding of c, a find searches with the embedding   *)
(* of its query and with the limit and threshold of the request, and so a  *)
(* find whose search succeeded returns every point of the collection that  *)
(* was stored with the query's text, provided the threshold is one an      *)
(* identical vector clears and the limit is not smaller than the number    *)
(* of points in the collection.                                            *)
C9_RoundTrip ==
    /\ \A c \in Colls : \A pt \in colls[c].points :
          StoredByEmbedding(pt) => pt.vector = Embed(pt.payload.content)
    /\ (Finds(last) /\ Made(last, "search", "ok")) =>
          /\ last.qvec = Embed(last.text)
          /\ \A pt \in last.seen :
                (/\ StoredByEmbedding(pt)
                 /\ pt.payload.content = last.text
                 /\ last.thr <= Score(pt.vector, pt.vector)
                 /\ last.limit >= Cardinality(last.seen))
                => Returned(last, pt)

C9_Witness ==
    /\ last.kind = "mcp_find" /\ last.out = "found"
    /\ \E pt \in last.seen : pt.payload.content = last.text /\ Returned(last, pt)
    /\ last.thr > Score(Embed("a"), Embed("b"))

(* C10: a find whose store search succeeded with zero hits is a normal     *)
(* result: POST /vectors/search answers 200 with an empty hit list and     *)
(* total 0, the qdrant-find tool answers its "No relevant results found"   *)
(* text, not a failure.                                                    *)
C10_ZeroHitsIsSuccess ==
    (Finds(last) /\ Made(last, "search", "ok") /\ last.hits = <<>>) =>
        IF last.kind = "rest_search"
        THEN last.status = 200 /\ last.out = "hits" /\ last.total = 0
        ELSE last.out = "none_found"

C10_Witness ==
    /\ last.kind = "rest_search"
    /\ last.status = 200 /\ last.hits = <<>> /\ last.total = 0
    /\ last.seen # {}

(* C11: POST /vectors/search returns the store's hits as the store gave   *)
(* them: the hit list of a 200 answer is the store's result list for the   *)
(* request's query vector, limit and threshold, in the store's order,      *)
(* each hit with the id, score and payload of the stored point, and total  *)
(* is the number of hits.                                                  *)
C11_HitsVerbatim ==
    (last.kind = "rest_search" /\ last.status = 200) =>
        /\ last.hits = Ranked({x \in last.seen : Score(x.vector, last.qvec) >= last.thr},
                              last.qvec, last.limit)
        /\ last.total = Len(last.hits)
        /\ \A k \in 1..Len(last.hits) :
              \E pt \in last.seen :
                 /\ pt.id = last.hits[k].id
                 /\ pt.payload = last.hits[k].payload
                 /\ last.hits[k].score = Score(pt.vector, last.qvec)

C11_Witness ==
    /\ last.kind = "rest_search" /\ last.status = 200
    /\ last.total = 2
    /\ last.hits[1].score > last.hits[2].score
    /\ last.hits[1].id # last.hits[2].id

ToolCallOf(r) ==
    r.body.form = "object" /\ r.body.method = "tools/call" /\ r.body.params = "object"

Raised(call) ==
    \E i \in 1..Len(call.log) : call.log[i].res = "error" /\ call.log[i].op # "get_collection"

(* C12: over the MCP HTTP transport a tools/call of one of the four tools  *)
(* whose operation fails (no content, query or name given, or an           *)
(* embedding or store call that raises) is answered with a JSON-RPC        *)
(* result whose text block is the handler's failure text, with the         *)
(* request's id, and never with a JSON-RPC error; qdrant-find with query   *)
(* "" is answered with the "No query provided" text and makes no adapter   *)
(* call.                                                                   *)
C12_ToolFailureIsResult ==
    (ToolCallOf(reply) /\ reply.body.tool \in ToolNames) =>
        /\ (reply.body.arg = "" /\ reply.body.tool # "qdrant-list-collections")
              => last.out \in {"no_content", "no_query", "no_name"}
        /\ Raised(last) => last.out \in FailureOuts
        /\ last.out \in FailureOuts =>
              /\ reply.status = 200 /\ reply.form = "object"
              /\ reply.result /\ ~reply.error
              /\ reply.text = last.out
              /\ reply.id = RequestId(reply.body)
        /\ (reply.body.tool = "qdrant-find" /\ reply.body.arg = "") =>
              /\ reply.result /\ reply.text = "no_query" /\ last.log = <<>>

C12_Witness ==
    /\ ToolCallOf(reply) /\ reply.body.tool = "qdrant-store"
    /\ Made(last, "upsert", "error") /\ last.out = "store_failed"
    /\ reply.result /\ reply.text = "store_failed" /\ reply.id = "7"

(* C13: a tools/call that names no known tool is answered with a JSON-RPC  *)
(* error of code -32601 carrying the request's id, and makes no adapter    *)
(* call.                                                                   *)
C13_UnknownToolIsError ==
    (ToolCallOf(reply) /\ reply.body.tool \notin ToolNames) =>
        /\ reply.error /\ ~reply.result
        /\ reply.code = -32601
        /\ reply.id = RequestId(reply.body)
        /\ last.log = <<>>

C15_InvalidJsonIsParseError ==
    reply.body.form \in {"malformed", "undecodable"} =>
        /\ reply.error /\ ~reply.result
        /\ reply.code = -32700
        /\ reply.id = NoneV
        /\ last = NoCall

(* C16: a request object whose jsonrpc field is missing or is not "2.0"    *)
(* is answered with a JSON-RPC error of code -32600 and its method is not  *)
(* executed.                                                               *)
C16_BadVersionIsInvalidRequest ==
    (reply.body.form = "object" /\ reply.body.jsonrpc # "2.0") =>
        /\ reply.error /\ ~reply.result
        /\ reply.code = -32600
        /\ last = NoCall

(* C17: a request object without an id, a notification, is answered with   *)
(* status 200 and an empty body, whatever its method.                      *)
C17_NotificationHasNoBody ==
    (reply.body.form = "object" /\ reply.body.id = Absent) =>
        /\ reply.status = 200
        /\ reply.form = "empty"

(* C18: a POST body that is an array of request objects is answered with   *)
(* an array of one response per request, in request order, each with the   *)
(* id of its request.                                                      *)
C18_BatchAnsweredInOrder ==
    reply.body.form = "array" =>
        /\ reply.form = "array"
        /\ reply.items = reply.body.batch

C20_ServesOnlyWhenReady ==
    \A e \in EntryPoints :
        boot[e].served => (boot[e].confirmed /\ boot[e].model)

C21_Bounded ==
    LET b == boot["rest"]
    IN /\ b.attempts \in 0..MaxRetries
       /\ b.phase = "connecting" =>
             /\ b.attempts < MaxRetries /\ ~b.confirmed
             /\ b.slept = b.attempts * Delay
       /\ b.confirmed =>
             /\ b.attempts >= 1
             /\ b.slept = (b.attempts - 1) * Delay
       /\ (b.phase = "exited" /\ ~b.confirmed) =>
             /\ b.attempts = MaxRetries
             /\ b.slept = (MaxRetries - 1) * Delay
       /\ b.phase = "loading" => b.confirmed
       /\ b.phase = "exited" => ~b.served
       /\ b.served => b.confirmed

C21_Round ==
    LET b == boot["rest"]
        c == boot'["rest"]
    IN /\ (b.phase = "connecting" /\ c # b) =>
             /\ c.attempts = b.attempts + 1
             /\ live => (c.confirmed /\ c.phase = "loading")
             /\ ~live => (~c.confirmed /\ c.phase \in {"connecting", "exited"})
       /\ b.confirmed => c.attempts = b.attempts
       /\ b.phase = "exited" => c = b

C21_Terminates == (boot["rest"].phase = "connecting") ~> (boot["rest"].phase # "connecting")

(* C21: the startup wait of the REST server is bounded and fatal.          *)
(* wait_for_qdrant makes at most max_retries rounds, sleeping the fixed    *)
(* delay after each failed round but the last; the first round the store   *)
(* answers ends the wait with success and no further round is made; after  *)
(* max_retries failed rounds the process exits, and an exited process      *)
(* never serves a request and never changes again; the wait always ends.   *)
C21_WaitBoundedAndFatal == [](C21_Bounded) /\ [][C21_Round]_vars /\ C21_Terminates

C21_Witness ==
    /\ boot["rest"].phase = "exited"
    /\ boot["rest"].attempts = MaxRetries
    /\ ~boot["rest"].confirmed
    /\ live

(* C22: GET /collections/{name} answers 404 exactly when the store says   *)
(* the collection does not exist; a store call that fails for another      *)
(* reason is answered with 500.                                            *)
C22_NotFoundOnlyWhenMissing ==
    last.kind = "rest_get" =>
        /\ last.status = 404 <=> last.log = <<Call("get_collection", "not_found")>>
        /\ last.log = <<Call("get_collection", "error")>> => last.status = 500

Encodes(call) == Cardinality({i \in 1..Len(call.log) : call.log[i].op = "encode"})

Lazy(call) == {k \in 1..Len(call.points) : NeedsEmbedding(call.points[k])}

C24_PayloadHasContentAndTokens ==
    \A c \in Colls : \A pt \in colls[c].points :
        Truthy(pt.payload.content) =>
            pt.payload.tokens = count_tokens(pt.payload.content)

(* C25: a collection auto-created by the qdrant-store tool has the vector  *)
(* size of the settings and the distance metric of the settings, whichever *)
(* of cosine, euclidean and dot is configured.                             *)
C25_AutoCreateUsesSettings ==
    (/\ last.kind = "mcp_store"
     /\ Len(last.log) >= 3
     /\ last.log[3] = Call("create_collection", "ok")) =>
        /\ colls[last.coll].exists
        /\ colls[last.coll].size = cfg.vector_size
        /\ colls[last.coll].distance = cfg.distance_metric

(* C26: the defaults of a search are resolved once, when the request is    *)
(* built: the handler searches with the caller's collection, limit and     *)
(* score threshold where given and with the settings of the moment of      *)
(* construction otherwise, also when the global settings were replaced     *)
(* while the request waited; the find tool reads its defaults and runs in  *)
(* one step.                                                               *)
C26_Handled == pending.state = "built" /\ pending'.state = "done"

C26_Resolved ==
    /\ C26_Handled =>
          /\ last'.kind = "rest_search"
          /\ last'.text = pending.query
          /\ last'.coll = (IF pending.carg = Absent THEN pending.at.collection_name
                           ELSE pending.carg)
          /\ last'.limit = (IF pending.larg = -1 THEN pending.at.top_k ELSE pending.larg)
          /\ last'.thr = (IF pending.targ = -1 THEN pending.at.min_score
                          ELSE pending.targ)
    /\ (nreqs' # nreqs /\ pending' = pending /\ last'.kind = "mcp_find") =>
          /\ last'.coll \in {cfg.collection_name, "notes"}
          /\ last'.limit \in Limits \cup {cfg.top_k}
          /\ last'.thr \in Thresholds \cup {cfg.min_score}

C26_DefaultsResolvedOnce == [][C26_Resolved]_vars

C26_Witness ==
    /\ pending.state = "done" /\ last.kind = "rest_search" /\ last.out = "hits"
    /\ pending.carg = Absent /\ pending.larg = -1 /\ pending.targ = -1
    /\ pending.ran # pending.at
    /\ last.limit = pending.at.top_k /\ last.limit # pending.ran.top_k
    /\ last.coll = pending.at.collection_name /\ last.thr = pending.at.min_score

(* C27: initialize answers with the protocol version, the server name and  *)
(* the server version of the loaded settings and with the request's id; it *)
(* makes no embedding or store call and leaves the store as it was, and it *)
(* succeeds whether or not the MCP handler has been initialized.           *)
C27_Initialize ==
    (/\ nreqs' # nreqs
     /\ cfg.loaded
     /\ reply'.body.form = "object"
     /\ reply'.body.method = "initialize") =>
        /\ reply'.result /\ ~reply'.error /\ reply'.status = 200
        /\ reply'.info.protocolVersion = cfg.protocol_version
        /\ reply'.info.name = cfg.server_name
        /\ reply'.info.version = cfg.server_version
        /\ reply'.id = RequestId(reply'.body)
        /\ last' = NoCall
        /\ colls' = colls

C28_PlainToolNames ==
    /\ (reply.body.method = "tools/list" /\ reply.result) =>
          reply.tools = {"store", "find", "list_collections", "create_collection"}
    /\ (reply.body.method = "tools/call" /\ reply.body.params = "object") =>
          /\ reply.body.tool = "store" =>
                (last.kind = "mcp_store" /\ (\E i \in 1..Len(last.log) : last.log[i] = Call("encode", "ok")))
          /\ reply.body.tool = "find" =>
                (last.kind = "mcp_find" /\ (\E i \in 1..Len(last.log) : last.log[i] = Call("encode", "ok")))
          /\ reply.body.tool = "list_collections" => last.kind = "mcp_list"

(* C29: every setting takes the value the configuration file gives it,     *)
(* else the value the environment gives it, else its built-in default.     *)
C29_Highest(f, e, d, none) == IF f # none THEN f ELSE IF e # none THEN e ELSE d

C29_PrecedencePerValue ==
    cfg.loaded =>
        /\ cfg.collection_name =
              C29_Highest(environ.file.collection_name, environ.env.collection_name,
                          DefaultSettings.collection_name, Absent)
        /\ cfg.top_k = C29_Highest(environ.file.top_k, environ.env.top_k,
                                   DefaultSettings.top_k, -1)
        /\ cfg.server_name =
              C29_Highest(environ.file.server_name, environ.env.server_name,
                          DefaultSettings.server_name, Absent)

(* C30: the precompact hook never loses transcript content.  In the        *)
(* rewritten transcript a message's content is a [[VEC:<id>]] stub only if *)
(* the upsert of that content under that id was answered with HTTP 200     *)
(* (and the point is in the collection); every other line (a failed store, *)
(* a message at or below the threshold, another role, an unparseable line) *)
(* is written back with its content, and the rewritten transcript has      *)
(* exactly one line per non-blank input line, in the original order.  A    *)
(* hook that exits leaves the transcript as it was.                        *)
C30_Kept == SelectSeq(hook.lines, LAMBDA l : ~IsBlank(l))

C30_Uids == {uuid4(i, 1) : i \in 1..(MaxLines + 1)}

C30_Stubbed(out) == out.kind = "msg" /\ \E u \in C30_Uids : out.content = Stub(u)

C30_StubJustified(in, out) ==
    /\ in.kind = "msg" /\ in.role = out.role
    /\ out.tokens = num_tokens(in.content)
    /\ \E u \in C30_Uids :
         /\ out.content = Stub(u)
         /\ \E k \in 1..Len(hook.answers) :
               hook.answers[k] = [id |-> u, content |-> in.content, status |-> 200]
         /\ \E pt \in colls[COLLECTION].points :
               pt.id = u /\ pt.payload.content = in.content

C30_MessageIntact(in, out) ==
    /\ in.kind = "msg" /\ out.kind = "msg"
    /\ out.role = in.role /\ out.content = in.content /\ out.tokens = in.tokens

C30_NeverLosesContent ==
    /\ hook.phase \in {"ready", "running", "exited"} => hook.file = hook.lines
    /\ hook.phase = "done" =>
          /\ Len(hook.file) = Len(C30_Kept)
          /\ \A i \in 1..Len(hook.file) :
                LET in == C30_Kept[i]
                    out == hook.file[i]
                IN IF C30_Stubbed(out) THEN C30_StubJustified(in, out)
                   ELSE IF in.kind = "text" THEN out = in
                   ELSE C30_MessageIntact(in, out)

(* C30 as the code has it: an unparseable line is written back without the *)
(* white space before its newline, and a transcript without any non-blank  *)
(* line is rewritten as a single blank line.                               *)
C30_NeverLosesContentAmended ==
    /\ hook.phase \in {"ready", "running", "exited"} => hook.file = hook.lines
    /\ hook.phase = "done" =>
          IF C30_Kept = <<>> THEN hook.file = <<BlankLine>>
          ELSE /\ Len(hook.file) = Len(C30_Kept)
               /\ \A i \in 1..Len(hook.file) :
                     LET in == C30_Kept[i]
                         out == hook.file[i]
                     IN IF C30_Stubbed(out) THEN C30_StubJustified(in, out)
                        ELSE IF in.kind = "text" THEN out = rstrip(in)
                        ELSE C30_MessageIntact(in, out)

C30_Witness ==
    /\ hook.phase = "done" /\ Len(hook.lines) = 2 /\ Len(hook.file) = 2
    /\ hook.lines[1].content = "long" /\ hook.lines[2].content = "long"
    /\ C30_Stubbed(hook.file[1])
    /\ hook.file[2].content = "long"
    /\ \E k \in 1..Len(hook.answers) : hook.answers[k].status = 500

====
